---- MODULE Spec2Model ----
(***************************************************************************)
(* Hybrid ECDSA + post-quantum signing provider (package hybrid).          *)
(*                                                                         *)
(* The repository holds several drafts of the package.  Three of them are  *)
(* modelled as "builds":                                                   *)
(*   mono  - the monolithic provider file (unnamed/part_001): the key      *)
(*           keeps the raw post-quantum private bytes, Sign combines both  *)
(*           signatures, Verify parses the blob and checks both;           *)
(*   split - the per-file provider (bccsp/hybrid/key.go, pqc_signer.go,    *)
(*           sign.go, verify.go, unnamed/part_011): the key keeps a live   *)
(*           *PQCSigner, Sign and Verify use the post-quantum half only;   *)
(*   old   - the split provider with its earlier files: NewPQCSigner of    *)
(*           unnamed/part_006 and Verify of unnamed/part_005, which        *)
(*           verifies with the signer the key keeps.                       *)
(* The combined-signature codec exists twice: inside the monolithic file   *)
(* and as a stand-alone file (unnamed/part_004).                           *)
(*                                                                         *)
(* Bytes are the integers 0..255, byte slices are sequences.  A uint32 is  *)
(* kept as two 16-bit halves [hi, lo], because the values that matter      *)
(* (up to 2^32 - 1) do not fit the model checker's integers; int is the    *)
(* 64-bit int of the amd64/arm64 targets.                                  *)
(***************************************************************************)
EXTENDS Integers, Sequences, FiniteSets, TLC

VARIABLES build, keys, heap, ctxs, last, signed, cx, thr

vars == <<build, keys, heap, ctxs, last, signed, cx, thr>>

(***************************************************************************)
(* Bounds of the model.                                                    *)
(***************************************************************************)
MaxBlobLen == 6
MaxSigLen == 2
MaxKeys == 3
MaxThreads == 2
MaxLeaks == 1

\* The nil slice, kept apart from the empty slice <<>>.
Nil == <<-1>>

NoErr == "nil"

(***************************************************************************)
(* encoding/binary, uint32 arithmetic and slice expressions                *)
(***************************************************************************)
Half == 256 * 256

\* binary.BigEndian.Uint32(b[:4])
Uint32(b) == [hi |-> b[1] * 256 + b[2], lo |-> b[3] * 256 + b[4]]

\* uint32(n) for a length n >= 0
ToUint32(n) == [hi |-> (n \div Half) % Half, lo |-> n % Half]

\* 4 + x in uint32 arithmetic: the sum wraps modulo 2^32
Add4(x) == [hi |-> (x.hi + ((x.lo + 4) \div Half)) % Half, lo |-> (x.lo + 4) % Half]

\* a > b on uint32
U32Gt(a, b) == a.hi > b.hi \/ (a.hi = b.hi /\ a.lo > b.lo)

\* n < int(x), n a length (below 2^16 here), x a uint32 widened to a 64-bit int
IntLtU32(n, x) == x.hi > 0 \/ n < x.lo

\* binary.BigEndian.PutUint32(lenBuf, v) on lenBuf = make([]byte, 4)
PutUint32Mirror(v) ==
    <<v.lo % 256, (v.lo \div 256) % 256, v.hi % 256, (v.hi \div 256) % 256>>

PutUint32(v) ==
    <<(v.hi \div 256) % 256, v.hi % 256, (v.lo \div 256) % 256, v.lo % 256>>

\* s[lo:hi] with uint32 or int bounds given as [hi, lo] halves: the bounds
\* check of the slice expression (0 <= lo <= hi <= len(s)).
SliceInRange(s, from, to) ==
    /\ from.hi = 0 /\ to.hi = 0
    /\ from.lo <= to.lo
    /\ to.lo <= Len(s)

Slice(s, from, to) == SubSeq(s, from.lo + 1, to.lo)

(***************************************************************************)
(* combineSignatures: [4 bytes ECDSA len][ECDSA sig][PQC sig]              *)
(***************************************************************************)
combineSignaturesNoPrefix(ecdsaSig, pqcSig) == ecdsaSig \o pqcSig

combineSignaturesLittleEndian(ecdsaSig, pqcSig) ==
    PutUint32Mirror(ToUint32(Len(ecdsaSig))) \o ecdsaSig \o pqcSig

combineSignatures(ecdsaSig, pqcSig) ==
    LET lenBuf   == PutUint32(ToUint32(Len(ecdsaSig)))
        combined == <<>>
    IN  ((combined \o lenBuf) \o ecdsaSig) \o pqcSig

(***************************************************************************)
(* parseHybridSignature.  The result records how the call ended:           *)
(*   status "ok" | "err" | "panic" (a slice expression out of range),      *)
(*   readPrefix: whether the length prefix was read.                       *)
(***************************************************************************)
ParseErr(msg, read) ==
    [status |-> "err", ecdsaSig |-> Nil, pqcSig |-> Nil, err |-> msg, readPrefix |-> read]

ParsePanic ==
    [status |-> "panic", ecdsaSig |-> Nil, pqcSig |-> Nil, err |-> NoErr, readPrefix |-> TRUE]

\* a slip: ecdsaSig = signature[4 : ecdsaLen]
ParseSlicesNoOffset(signature, ecdsaLen) ==
    LET four == ToUint32(4)
        end  == Add4(ecdsaLen)
        n    == ToUint32(Len(signature))
    IN  IF SliceInRange(signature, four, ecdsaLen) /\ SliceInRange(signature, end, n)
        THEN [status |-> "ok",
              ecdsaSig |-> Slice(signature, four, ecdsaLen),
              pqcSig |-> Slice(signature, end, n),
              err |-> NoErr, readPrefix |-> TRUE]
        ELSE ParsePanic

\* ecdsaSig = signature[4 : 4+ecdsaLen]; pqcSig = signature[4+ecdsaLen:]
ParseSlices(signature, ecdsaLen) ==
    LET four == ToUint32(4)
        end  == Add4(ecdsaLen)
        n    == ToUint32(Len(signature))
    IN  IF SliceInRange(signature, four, end) /\ SliceInRange(signature, end, n)
        THEN [status |-> "ok",
              ecdsaSig |-> Slice(signature, four, end),
              pqcSig |-> Slice(signature, end, n),
              err |-> NoErr, readPrefix |-> TRUE]
        ELSE ParsePanic

\* the draft inside the monolithic provider file
parseHybridSignatureMono(signature) ==
    IF Len(signature) < 4
    THEN ParseErr("signature too short", FALSE)
    ELSE LET ecdsaLen == Uint32(SubSeq(signature, 1, 4))
         IN  IF IntLtU32(Len(signature), Add4(ecdsaLen))
             THEN ParseErr("invalid signature format", TRUE)
             ELSE ParseSlices(signature, ecdsaLen)

parseHybridSignatureShortGuard(signature) ==
    IF Len(signature) < 3
    THEN ParseErr("signature too short", FALSE)
    ELSE IF Len(signature) < 4
    THEN ParsePanic
    ELSE LET ecdsaLen == Uint32(SubSeq(signature, 1, 4))
         IN  IF U32Gt(ecdsaLen, ToUint32(Len(signature) - 4))
             THEN ParseErr("invalid signature format: ECDSA length exceeds signature size", TRUE)
             ELSE ParseSlices(signature, ecdsaLen)

\* a slip: the boundary L = len(signature) - 4 is refused
parseHybridSignatureStrict(signature) ==
    IF Len(signature) < 4
    THEN ParseErr("signature too short", FALSE)
    ELSE LET ecdsaLen == Uint32(SubSeq(signature, 1, 4))
         IN  IF U32Gt(ecdsaLen, ToUint32(Len(signature) - 4))
                \/ ecdsaLen = ToUint32(Len(signature) - 4)
             THEN ParseErr("invalid signature format: ECDSA length exceeds signature size", TRUE)
             ELSE IF IntLtU32(Len(signature), Add4(ecdsaLen))
             THEN ParseErr("invalid signature format", TRUE)
             ELSE ParseSlices(signature, ecdsaLen)

\* the stand-alone codec file
parseHybridSignature(signature) ==
    IF Len(signature) < 4
    THEN ParseErr("signature too short", FALSE)
    ELSE LET ecdsaLen == Uint32(SubSeq(signature, 1, 4))
         IN  IF U32Gt(ecdsaLen, ToUint32(Len(signature) - 4))
             THEN ParseErr("invalid signature format: ECDSA length exceeds signature size", TRUE)
             ELSE IF IntLtU32(Len(signature), Add4(ecdsaLen))
             THEN ParseErr("invalid signature format", TRUE)
             ELSE ParseSlices(signature, ecdsaLen)

(***************************************************************************)
(* Inputs of the codec checks                                              *)
(***************************************************************************)
BlobBytes == {0, 1, 2, 255}
SigBytes == {65, 88}

SeqsUpTo(S, n) == UNION {[1..m -> S] : m \in 0..n}

NoParse ==
    [status |-> "none", ecdsaSig |-> Nil, pqcSig |-> Nil, err |-> NoErr, readPrefix |-> FALSE]

PairInputs ==
    {[kind |-> "pair", a |-> p[1], b |-> p[2], blob |-> Nil,
      combined |-> Nil, parsed |-> NoParse, parsedMono |-> NoParse] :
        p \in (SeqsUpTo(SigBytes, MaxSigLen) \X SeqsUpTo(SigBytes, MaxSigLen))
               \cup {<< <<65, 66>>, <<88, 89, 90>> >>}}

BlobInputs ==
    {[kind |-> "blob", a |-> Nil, b |-> Nil, blob |-> s,
      combined |-> Nil, parsed |-> NoParse, parsedMono |-> NoParse] :
        s \in SeqsUpTo(BlobBytes, MaxBlobLen)}

NoCodec ==
    [kind |-> "none", a |-> Nil, b |-> Nil, blob |-> Nil,
     combined |-> Nil, parsed |-> NoParse, parsedMono |-> NoParse]

(***************************************************************************)
(* The two signing engines behind the provider.  Both are libraries the    *)
(* package calls: the classical software provider (h.sw) and the native    *)
(* post-quantum signature object (oqs.Signature).  A signature is modelled *)
(* symbolically: a tag byte, the byte naming the public key it verifies    *)
(* under, and the digest.  An engine call may also fail by itself; the     *)
(* fault injected into a call is one of Faults.                            *)
(***************************************************************************)
Faults == {"none", "ecdsa", "init", "pqc"}

Digests == {<<1>>, <<2>>}

\* the leading byte of a signature: 0x30 classical, 0x51 post-quantum
Tag(engine) == IF engine = "ecdsa" THEN 48 ELSE 81

\* the public key bytes that belong to post-quantum secret key bytes sk; the
\* bytes of different secret keys differ in two bits or more, so that no
\* single-bit change turns a signature of one key into one of another
PubOf(sk) == <<(3 * sk[1] + 100) % 256>>

Zeroed(b) == [i \in 1..Len(b) |-> 0]

\* h.sw.Sign(k, digest, opts): only a private key signs
swSign(ecdsaKey, digest, fault) ==
    IF fault = "ecdsa" \/ ~ecdsaKey.private
    THEN [sig |-> Nil, err |-> "sw: sign failed"]
    ELSE [sig |-> <<Tag("ecdsa"), ecdsaKey.id>> \o digest, err |-> NoErr]

\* h.sw.Verify(k, signature, digest, opts)
swVerify(ecdsaKey, signature, digest, fault) ==
    IF fault = "ecdsa"
    THEN [valid |-> FALSE, err |-> "sw: verify failed"]
    ELSE [valid |-> signature = <<Tag("ecdsa"), ecdsaKey.id>> \o digest, err |-> NoErr]

\* oqs.Signature.Sign(digest) on a context holding secret key bytes sk
\* (Nil: none): it fails without a secret key of the algorithm's length
oqsSign(sk, digest, fault) ==
    IF fault = "pqc" \/ sk = Nil
    THEN [sig |-> Nil, err |-> "oqs: sign failed"]
    ELSE [sig |-> <<Tag("pqc"), PubOf(sk)[1]>> \o digest, err |-> NoErr]

\* oqs.Signature.Verify(digest, signature, publicKey)
oqsVerify(digest, signature, publicKey, fault) ==
    IF fault = "pqc"
    THEN [valid |-> FALSE, err |-> "oqs: verify failed"]
    ELSE [valid |-> signature = <<Tag("pqc"), publicKey[1]>> \o digest, err |-> NoErr]

\* oqs.Signature.Clean(): zeroes the secret key bytes the context holds
\* (address addr of the heap, 0: none) and frees the native object
Clean(h, addr) ==
    IF addr = 0 THEN h ELSE [h EXCEPT ![addr] = Zeroed(h[addr])]

(***************************************************************************)
(* The native context behind an oqs.Signature value.  An operation's calls *)
(* on the context it declares are kept as a sequence of call names; a call *)
(* is a misuse when the context is not in the state the call requires;     *)
(* generated counts the GenerateKeyPair calls the context accepted.        *)
(***************************************************************************)
NativeUses == {"GenerateKeyPair", "ExportSecretKey", "Sign", "Verify"}

NativeInit == [state |-> "Uninitialized", misuse |-> FALSE, generated |-> 0]

NativeStep(st, call) ==
    IF call = "Init"
    THEN IF st.state = "Uninitialized"
         THEN [st EXCEPT !.state = "Initialized"]
         ELSE [st EXCEPT !.misuse = TRUE]
    ELSE IF call = "InitFailed"
    THEN st
    ELSE IF call = "Clean"
    THEN IF st.state = "Initialized" THEN [st EXCEPT !.state = "Cleaned"] ELSE st
    ELSE IF call = "GenerateKeyPair"
    THEN IF st.state = "Initialized" /\ st.generated = 0
         THEN [st EXCEPT !.generated = 1]
         ELSE [st EXCEPT !.misuse = TRUE]
    ELSE IF call \in NativeUses
    THEN IF st.state = "Initialized" THEN st ELSE [st EXCEPT !.misuse = TRUE]
    ELSE st

RECURSIVE NativeRun(_, _)
NativeRun(calls, st) ==
    IF calls = <<>> THEN st ELSE NativeRun(Tail(calls), NativeStep(st, Head(calls)))

(***************************************************************************)
(* Keys.  A bccsp.Key is either a plain classical key or a *hybridKey.     *)
(* pqcPriv is 0 for nil; in the mono build it is the address of the        *)
(* private bytes ([]byte), in the split build the index of the *PQCSigner. *)
(* pqcPub is a slice: its bytes, and pqcPubAt, the backing array the slice *)
(* points to (0 for the nil slice), named by the key pair whose            *)
(* GenerateKeyPair call allocated it.                                      *)
(***************************************************************************)
ClassicalKey(id, private) ==
    [kind |-> "classical", ecdsaKey |-> [id |-> id, private |-> private],
     pqcPub |-> Nil, pqcPubAt |-> 0, pqcPriv |-> 0]

HybridKey(ecdsaKey, pqcPub, pqcPubAt, pqcPriv) ==
    [kind |-> "hybrid", ecdsaKey |-> ecdsaKey, pqcPub |-> pqcPub,
     pqcPubAt |-> pqcPubAt, pqcPriv |-> pqcPriv]

\* hybridKey.PublicKey(): the classical public projection, the same
\* post-quantum public bytes, no private component
PublicKeyKeepsPrivate(k) ==
    HybridKey([id |-> k.ecdsaKey.id, private |-> FALSE], k.pqcPub, k.pqcPubAt, k.pqcPriv)

\* a slip: the classical key is not projected
PublicKeyKeepsClassical(k) == HybridKey(k.ecdsaKey, k.pqcPub, k.pqcPubAt, 0)

\* pqcPub: k.pqcPub copies the slice, not the bytes it points to
PublicKeyOf(k) ==
    HybridKey([id |-> k.ecdsaKey.id, private |-> FALSE], k.pqcPub, k.pqcPubAt, 0)

\* hybridKey.Private()
Private(k) == k.ecdsaKey.private

\* hybridKey.HasPrivateKey()
HasPrivateKey(k) == k.pqcPriv # 0

\* the classical key's SKI(): a digest of its public point, the same for the
\* private key and its public projection
swSKI(ecdsaKey) == <<(5 * ecdsaKey.id + 17) % 256>>

\* the classical key's Bytes(): the encoded public key; a private ECDSA key
\* of the software provider does not give its bytes
swBytes(ecdsaKey) ==
    IF ecdsaKey.private
    THEN [out |-> Nil, err |-> "Not supported."]
    ELSE [out |-> <<4, ecdsaKey.id>>, err |-> NoErr]

\* a slip: the post-quantum public key is mixed into the identifier
SKIWithPqcPub(k) == <<(swSKI(k.ecdsaKey)[1] + k.pqcPub[1]) % 256>>

\* hybridKey.SKI()
SKI(k) == swSKI(k.ecdsaKey)

\* hybridKey.Bytes()
Bytes(k) == swBytes(k.ecdsaKey)

(***************************************************************************)
(* The operations the provider hands to the classical provider as they     *)
(* are.  swCall is the classical provider: k the key argument (NoKey for   *)
(* none; for GetKey the key stored under the identifier), raw the byte     *)
(* argument, id the identity a new key gets.  It knows ECDSA keys only.    *)
(***************************************************************************)
PassOps == {"KeyDeriv", "KeyImport", "GetKey", "Hash", "GetHash", "Encrypt", "Decrypt"}

NoKey ==
    [kind |-> "none", ecdsaKey |-> [id |-> 0, private |-> FALSE], pqcPub |-> Nil,
     pqcPubAt |-> 0, pqcPriv |-> 0]

swResult(out, key, err) == [out |-> out, key |-> key, err |-> err]

swCall(op, k, raw, fault, id) ==
    IF fault = "ecdsa" THEN swResult(Nil, NoKey, "sw: failed")
    ELSE IF op = "Hash" THEN swResult(<<(7 * raw[1] + 3) % 256>>, NoKey, NoErr)
    ELSE IF op = "GetHash" THEN swResult(<<32>>, NoKey, NoErr)
    ELSE IF op = "KeyImport" THEN swResult(Nil, ClassicalKey(id, raw[1] = 1), NoErr)
    ELSE IF op = "KeyDeriv"
    THEN IF k.kind = "classical"
         THEN swResult(Nil, ClassicalKey(id, k.ecdsaKey.private), NoErr)
         ELSE swResult(Nil, NoKey, "sw: unsupported key type")
    ELSE IF op = "GetKey"
    THEN IF k.kind # "none"
         THEN swResult(Nil, ClassicalKey(k.ecdsaKey.id, k.ecdsaKey.private), NoErr)
         ELSE swResult(Nil, NoKey, "sw: key not found")
    ELSE \* Encrypt, Decrypt: no ECDSA encryption
         swResult(Nil, NoKey, "sw: unsupported key type")

\* a slip: the classical half of a hybrid key is handed on instead of the key
PassThroughUnwraps(op, k, raw, fault, id) ==
    swCall(op, IF k.kind = "hybrid"
               THEN ClassicalKey(k.ecdsaKey.id, k.ecdsaKey.private)
               ELSE k,
           raw, fault, id)

\* HybridBCCSP.KeyDeriv .. Decrypt: return h.sw.<op>(...)
PassThrough(op, k, raw, fault, id) == swCall(op, k, raw, fault, id)

(***************************************************************************)
(* HybridBCCSP.Sign                                                        *)
(* The result: out (the signature, Nil for none), err, panic, which engine *)
(* calls were made (ranE: h.sw.Sign, ranP: the native Sign), inited (a     *)
(* native context was initialised with the key's bytes, so the deferred    *)
(* Clean acts on them), calls (the calls on the context the operation      *)
(* declares) and keyCalls (the calls on the context the key keeps).        *)
(***************************************************************************)
SignResult(out, err, panic, ranE, ranP, inited, calls, keyCalls) ==
    [out |-> out, err |-> err, panic |-> panic, ranE |-> ranE, ranP |-> ranP,
     inited |-> inited, calls |-> calls, keyCalls |-> keyCalls]

\* mono build.  h is the heap holding the private key bytes.
SignMono(k, digest, fault, h) ==
    IF k.kind # "hybrid"
    THEN \* Fallback to pure ECDSA for non-hybrid keys
         LET r == swSign(k.ecdsaKey, digest, fault)
         IN  SignResult(r.sig, r.err, FALSE, TRUE, FALSE, FALSE, <<>>, <<>>)
    ELSE LET e == swSign(k.ecdsaKey, digest, fault)
         IN  IF e.err # NoErr
             THEN SignResult(Nil, "ECDSA sign failed", FALSE, TRUE, FALSE, FALSE, <<>>, <<>>)
             ELSE IF fault = "init"
             THEN SignResult(Nil, "Dilithium3 init failed", FALSE, TRUE, FALSE, FALSE,
                             <<"InitFailed", "Clean">>, <<>>)
             ELSE LET sk == IF k.pqcPriv = 0 THEN Nil ELSE h[k.pqcPriv]
                      p  == oqsSign(sk, digest, fault)
                  IN  IF p.err # NoErr
                      THEN SignResult(Nil, "Dilithium3 sign failed", FALSE, TRUE, TRUE, TRUE,
                                      <<"Init", "Sign", "Clean">>, <<>>)
                      ELSE SignResult(combineSignatures(e.sig, p.sig), NoErr,
                                      FALSE, TRUE, TRUE, TRUE,
                                      <<"Init", "Sign", "Clean">>, <<>>)

\* split build.  c are the PQCSigner objects, h the heap.
SignSplit(k, digest, fault, c, h) ==
    IF k.kind # "hybrid"
    THEN SignResult(Nil, "invalid key type, expected *hybridKey", FALSE, FALSE, FALSE,
                    FALSE, <<>>, <<>>)
    ELSE IF k.pqcPriv = 0
    THEN \* key.pqcPriv.Sign on a nil *PQCSigner: nil pointer dereference
         SignResult(Nil, NoErr, TRUE, FALSE, FALSE, FALSE, <<>>, <<>>)
    ELSE LET p == oqsSign(h[c[k.pqcPriv].sk], digest, fault)
         IN  IF p.err # NoErr
             THEN SignResult(Nil, "PQC signature failed", FALSE, FALSE, TRUE, FALSE,
                             <<>>, <<"Sign">>)
             ELSE SignResult(p.sig, NoErr, FALSE, FALSE, TRUE, FALSE, <<>>, <<"Sign">>)

(***************************************************************************)
(* HybridBCCSP.Verify                                                      *)
(* The result: valid, err, panic, parse (how parseHybridSignature ended,   *)
(* "none" when it was not called), ranE / ranP (the classical / the        *)
(* post-quantum verification was performed), validE / validP (what each    *)
(* reported), calls and keyCalls as for Sign.                              *)
(***************************************************************************)
VerifyResult(valid, err, panic, parse, ranE, ranP, validE, validP, calls, keyCalls) ==
    [valid |-> valid, err |-> err, panic |-> panic, parse |-> parse,
     ranE |-> ranE, ranP |-> ranP, validE |-> validE, validP |-> validP,
     calls |-> calls, keyCalls |-> keyCalls]

\* a slip: the post-quantum result is dropped from the conjunction
VerifyMonoClassicalOnly(k, signature, digest, fault) ==
    IF k.kind # "hybrid"
    THEN LET r == swVerify(k.ecdsaKey, signature, digest, fault)
         IN  VerifyResult(r.valid, r.err, FALSE, "none", TRUE, FALSE, r.valid, FALSE,
                          <<>>, <<>>)
    ELSE LET ps == parseHybridSignatureMono(signature)
         IN  IF ps.status = "panic"
             THEN VerifyResult(FALSE, NoErr, TRUE, "panic", FALSE, FALSE, FALSE, FALSE,
                               <<>>, <<>>)
             ELSE IF ps.status = "err"
             THEN VerifyResult(FALSE, "parse signature failed", FALSE, "err",
                               FALSE, FALSE, FALSE, FALSE, <<>>, <<>>)
             ELSE LET e == swVerify(k.ecdsaKey, ps.ecdsaSig, digest, fault)
                  IN  IF e.err # NoErr \/ ~e.valid
                      THEN VerifyResult(FALSE, "ECDSA verify failed", FALSE, "ok",
                                        TRUE, FALSE, e.valid, FALSE, <<>>, <<>>)
                      ELSE IF fault = "init"
                      THEN VerifyResult(FALSE, "Dilithium3 init failed", FALSE, "ok",
                                        TRUE, FALSE, e.valid, FALSE,
                                        <<"InitFailed", "Clean">>, <<>>)
                      ELSE LET q == oqsVerify(digest, ps.pqcSig, k.pqcPub, fault)
                           IN  IF q.err # NoErr
                               THEN VerifyResult(FALSE, "Dilithium3 verify failed", FALSE,
                                                 "ok", TRUE, TRUE, e.valid, FALSE,
                                                 <<"Init", "Verify", "Clean">>, <<>>)
                               ELSE VerifyResult(e.valid, NoErr, FALSE,
                                                 "ok", TRUE, TRUE, e.valid, q.valid,
                                                 <<"Init", "Verify", "Clean">>, <<>>)

\* mono build
VerifyMono(k, signature, digest, fault) ==
    IF k.kind # "hybrid"
    THEN \* Fallback to pure ECDSA
         LET r == swVerify(k.ecdsaKey, signature, digest, fault)
         IN  VerifyResult(r.valid, r.err, FALSE, "none", TRUE, FALSE, r.valid, FALSE,
                          <<>>, <<>>)
    ELSE LET ps == parseHybridSignatureMono(signature)
         IN  IF ps.status = "panic"
             THEN VerifyResult(FALSE, NoErr, TRUE, "panic", FALSE, FALSE, FALSE, FALSE,
                               <<>>, <<>>)
             ELSE IF ps.status = "err"
             THEN VerifyResult(FALSE, "parse signature failed", FALSE, "err",
                               FALSE, FALSE, FALSE, FALSE, <<>>, <<>>)
             ELSE LET e == swVerify(k.ecdsaKey, ps.ecdsaSig, digest, fault)
                  IN  IF e.err # NoErr \/ ~e.valid
                      THEN VerifyResult(FALSE, "ECDSA verify failed", FALSE, "ok",
                                        TRUE, FALSE, e.valid, FALSE, <<>>, <<>>)
                      ELSE IF fault = "init"
                      THEN \* defer signer.Clean() precedes Init
                           VerifyResult(FALSE, "Dilithium3 init failed", FALSE, "ok",
                                        TRUE, FALSE, e.valid, FALSE,
                                        <<"InitFailed", "Clean">>, <<>>)
                      ELSE LET q == oqsVerify(digest, ps.pqcSig, k.pqcPub, fault)
                           IN  IF q.err # NoErr
                               THEN VerifyResult(FALSE, "Dilithium3 verify failed", FALSE,
                                                 "ok", TRUE, TRUE, e.valid, FALSE,
                                                 <<"Init", "Verify", "Clean">>, <<>>)
                               ELSE VerifyResult(e.valid /\ q.valid, NoErr, FALSE,
                                                 "ok", TRUE, TRUE, e.valid, q.valid,
                                                 <<"Init", "Verify", "Clean">>, <<>>)

\* a slip: the failed Init is reported next to true
VerifySplitTrueWithError(k, signature, digest, fault) ==
    IF k.kind # "hybrid"
    THEN VerifyResult(FALSE, "invalid key type, expected *hybridKey", FALSE, "none",
                      FALSE, FALSE, FALSE, FALSE, <<>>, <<>>)
    ELSE IF Len(k.pqcPub) = 0
    THEN VerifyResult(FALSE, "PQC public key is empty", FALSE, "none",
                      FALSE, FALSE, FALSE, FALSE, <<>>, <<>>)
    ELSE IF fault = "init"
    THEN VerifyResult(TRUE, "failed to init PQC verifier", FALSE, "none",
                      FALSE, FALSE, FALSE, FALSE, <<"InitFailed">>, <<>>)
    ELSE LET q == oqsVerify(digest, signature, k.pqcPub, fault)
         IN  IF q.err # NoErr
             THEN VerifyResult(FALSE, "PQC verification failed", FALSE, "none",
                               FALSE, TRUE, FALSE, FALSE,
                               <<"Init", "Verify", "Clean">>, <<>>)
             ELSE VerifyResult(q.valid, NoErr, FALSE, "none",
                               FALSE, TRUE, FALSE, q.valid,
                               <<"Init", "Verify", "Clean">>, <<>>)

\* split build (verify.go)
VerifySplit(k, signature, digest, fault) ==
    IF k.kind # "hybrid"
    THEN VerifyResult(FALSE, "invalid key type, expected *hybridKey", FALSE, "none",
                      FALSE, FALSE, FALSE, FALSE, <<>>, <<>>)
    ELSE IF Len(k.pqcPub) = 0
    THEN VerifyResult(FALSE, "PQC public key is empty", FALSE, "none",
                      FALSE, FALSE, FALSE, FALSE, <<>>, <<>>)
    ELSE IF fault = "init"
    THEN VerifyResult(FALSE, "failed to init PQC verifier", FALSE, "none",
                      FALSE, FALSE, FALSE, FALSE, <<"InitFailed">>, <<>>)
    ELSE LET q == oqsVerify(digest, signature, k.pqcPub, fault)
         IN  IF q.err # NoErr
             THEN VerifyResult(FALSE, "PQC verification failed", FALSE, "none",
                               FALSE, TRUE, FALSE, FALSE,
                               <<"Init", "Verify", "Clean">>, <<>>)
             ELSE VerifyResult(q.valid, NoErr, FALSE, "none",
                               FALSE, TRUE, FALSE, q.valid,
                               <<"Init", "Verify", "Clean">>, <<>>)

\* old build (unnamed/part_005): the signer the key keeps verifies, under
\* the public key bytes it holds.  c are the PQCSigner objects.
VerifyOld(k, signature, digest, fault, c) ==
    IF k.kind # "hybrid"
    THEN VerifyResult(FALSE, "invalid key type, expected *hybridKey", FALSE, "none",
                      FALSE, FALSE, FALSE, FALSE, <<>>, <<>>)
    ELSE IF k.pqcPriv = 0
    THEN \* key.pqcPriv.Verify on a nil *PQCSigner: nil pointer dereference
         VerifyResult(FALSE, NoErr, TRUE, "none", FALSE, FALSE, FALSE, FALSE, <<>>, <<>>)
    ELSE LET q == oqsVerify(digest, signature, c[k.pqcPriv].publicKey, fault)
         IN  IF q.err # NoErr
             THEN VerifyResult(FALSE, "PQC verification failed", FALSE, "none",
                               FALSE, TRUE, FALSE, FALSE, <<>>, <<"Verify">>)
             ELSE VerifyResult(q.valid, NoErr, FALSE, "none",
                               FALSE, TRUE, FALSE, q.valid, <<>>, <<"Verify">>)

(***************************************************************************)
(* HybridBCCSP.KeyGen                                                      *)
(* id names the fresh key pair: the classical key id, and the seed of the  *)
(* post-quantum secret key bytes <<id>>.  c holds the native contexts that *)
(* are still initialised when the call has returned.                       *)
(***************************************************************************)
KeyGenResult(key, err, h, c, calls) ==
    [key |-> key, err |-> err, heap |-> h, ctxs |-> c, calls |-> calls]

\* a slip: the key pair is generated a second time on the same context
KeyGenMonoRegenerates(id, fault, h, c) ==
    IF fault = "ecdsa"
    THEN KeyGenResult(NoKey, "ECDSA KeyGen failed", h, c, <<>>)
    ELSE IF fault = "init"
    THEN KeyGenResult(NoKey, "Dilithium3 init failed", h, c, <<"InitFailed", "Clean">>)
    ELSE IF fault = "pqc"
    THEN KeyGenResult(NoKey, "Dilithium3 keygen failed", h, c,
                      <<"Init", "GenerateKeyPair", "Clean">>)
    ELSE LET addr    == Len(h) + 1
             h1      == Append(h, <<id>>)
             pqcPub  == PubOf(h1[addr])
             pqcPriv == addr
         IN  KeyGenResult(HybridKey([id |-> id, private |-> TRUE], pqcPub, id, pqcPriv),
                          NoErr, Clean(h1, addr), c,
                          <<"Init", "GenerateKeyPair", "GenerateKeyPair",
                            "ExportSecretKey", "Clean">>)

\* mono build: the key keeps the slice ExportSecretKey returns, which is the
\* context's own secret key storage; the deferred Clean runs on return.
KeyGenMono(id, fault, h, c) ==
    IF fault = "ecdsa"
    THEN KeyGenResult(NoKey, "ECDSA KeyGen failed", h, c, <<>>)
    ELSE IF fault = "init"
    THEN KeyGenResult(NoKey, "Dilithium3 init failed", h, c, <<"InitFailed", "Clean">>)
    ELSE IF fault = "pqc"
    THEN KeyGenResult(NoKey, "Dilithium3 keygen failed", h, c,
                      <<"Init", "GenerateKeyPair", "Clean">>)
    ELSE LET addr    == Len(h) + 1
             h1      == Append(h, <<id>>)
             pqcPub  == PubOf(h1[addr])
             pqcPriv == addr
         IN  KeyGenResult(HybridKey([id |-> id, private |-> TRUE], pqcPub, id, pqcPriv),
                          NoErr, Clean(h1, addr), c,
                          <<"Init", "GenerateKeyPair", "ExportSecretKey", "Clean">>)

\* the PQCSigner object around an initialised context
PQCSigner(sk, publicKey) == [live |-> TRUE, sk |-> sk, publicKey |-> publicKey]

\* a slip: the context is released on every path (a deferred Clean), also
\* when the signer is returned
NewPQCSignerCleans(id, fault, h, c) ==
    IF fault = "init"
    THEN [ok |-> FALSE, heap |-> h, ctxs |-> c, err |-> "failed to init PQC signer",
          calls |-> <<"InitFailed">>]
    ELSE IF fault = "pqc"
    THEN [ok |-> FALSE, heap |-> h, ctxs |-> c, err |-> "failed to generate key pair",
          calls |-> <<"Init", "GenerateKeyPair", "Clean">>]
    ELSE LET addr == Len(h) + 1
             h1   == Append(h, <<id>>)
         IN  [ok |-> TRUE, heap |-> Clean(h1, addr), err |-> NoErr,
              ctxs |-> Append(c, [PQCSigner(addr, PubOf(h1[addr])) EXCEPT !.live = FALSE]),
              calls |-> <<"Init", "GenerateKeyPair", "Clean">>]

\* NewPQCSigner (pqc_signer.go): a context with a fresh key pair, kept alive
\* in the result; released when GenerateKeyPair fails
NewPQCSigner(id, fault, h, c) ==
    IF fault = "init"
    THEN [ok |-> FALSE, heap |-> h, ctxs |-> c, err |-> "failed to init PQC signer",
          calls |-> <<"InitFailed">>]
    ELSE IF fault = "pqc"
    THEN [ok |-> FALSE, heap |-> h, ctxs |-> c, err |-> "failed to generate key pair",
          calls |-> <<"Init", "GenerateKeyPair", "Clean">>]
    ELSE LET addr == Len(h) + 1
             h1   == Append(h, <<id>>)
         IN  [ok |-> TRUE, heap |-> h1, err |-> NoErr,
              ctxs |-> Append(c, PQCSigner(addr, PubOf(h1[addr]))),
              calls |-> <<"Init", "GenerateKeyPair">>]

\* NewPQCSigner (unnamed/part_006): when GenerateKeyPair fails the context
\* stays initialised and nothing refers to it (sk 0: no key pair in it)
NewPQCSignerOld(id, fault, h, c) ==
    IF fault = "init"
    THEN [ok |-> FALSE, heap |-> h, ctxs |-> c, err |-> "failed to init PQC signer",
          calls |-> <<"InitFailed">>]
    ELSE IF fault = "pqc"
    THEN [ok |-> FALSE, heap |-> h, ctxs |-> Append(c, PQCSigner(0, Nil)),
          err |-> "failed to generate key pair",
          calls |-> <<"Init", "GenerateKeyPair">>]
    ELSE LET addr == Len(h) + 1
             h1   == Append(h, <<id>>)
         IN  [ok |-> TRUE, heap |-> h1, err |-> NoErr,
              ctxs |-> Append(c, PQCSigner(addr, PubOf(h1[addr]))),
              calls |-> <<"Init", "GenerateKeyPair">>]

\* a slip: a failed NewPQCSigner is not reported and the classical half is
\* returned as the key
KeyGenAroundPartial(id, s) ==
    IF ~s.ok
    THEN KeyGenResult(HybridKey([id |-> id, private |-> TRUE], Nil, 0, 0),
                      NoErr, s.heap, s.ctxs, s.calls)
    ELSE LET pqcSigner == Len(s.ctxs)
         IN  KeyGenResult(HybridKey([id |-> id, private |-> TRUE],
                                    s.ctxs[pqcSigner].publicKey, id, pqcSigner),
                          NoErr, s.heap, s.ctxs, s.calls)

\* KeyGen of unnamed/part_011 around the signer s that NewPQCSigner returned;
\* pqcSigner.PublicKey() is the slice the signer holds
KeyGenAround(id, s) ==
    IF ~s.ok
    THEN KeyGenResult(NoKey, "PQC KeyGen failed", s.heap, s.ctxs, s.calls)
    ELSE LET pqcSigner == Len(s.ctxs)
         IN  KeyGenResult(HybridKey([id |-> id, private |-> TRUE],
                                    s.ctxs[pqcSigner].publicKey, id, pqcSigner),
                          NoErr, s.heap, s.ctxs, s.calls)

\* split build: the key keeps the whole signer
KeyGenSplit(id, fault, h, c) ==
    IF fault = "ecdsa"
    THEN KeyGenResult(NoKey, "ECDSA KeyGen failed", h, c, <<>>)
    ELSE KeyGenAround(id, NewPQCSigner(id, fault, h, c))

\* old build: the same KeyGen over the earlier NewPQCSigner
KeyGenOld(id, fault, h, c) ==
    IF fault = "ecdsa"
    THEN KeyGenResult(NoKey, "ECDSA KeyGen failed", h, c, <<>>)
    ELSE KeyGenAround(id, NewPQCSignerOld(id, fault, h, c))

(***************************************************************************)
(* State: build (which draft runs), keys (the keys the caller holds),      *)
(* heap (secret key byte storage), ctxs (the native contexts that outlive  *)
(* the call that initialised them: the PQCSigner objects), last (the last  *)
(* call and how it ended), signed (the last blob a hybrid Sign returned),  *)
(* cx (the codec calls, checked on their own), thr (the calls in progress  *)
(* when several threads call the provider at the same time).               *)
(***************************************************************************)
Threads == 1..MaxThreads

\* no context: the thread is between two native calls
NoCtx == <<"none", 0>>

NoThread == [op |-> "none", k |-> 0, todo |-> <<>>, using |-> NoCtx, call |-> "none"]

NoThreads == [t \in Threads |-> NoThread]

NoCall ==
    [op |-> "none", k |-> 0, from |-> 0, digest |-> Nil, sig |-> Nil, out |-> Nil,
     valid |-> FALSE, err |-> NoErr, panic |-> FALSE, parse |-> "none",
     ranE |-> FALSE, ranP |-> FALSE, validE |-> FALSE, validP |-> FALSE,
     fault |-> "none", key |-> NoKey, calls |-> <<>>, keyCalls |-> <<>>,
     raw |-> Nil]

NoSigned == [k |-> 0, digest |-> Nil, sig |-> Nil]

Max(S) == CHOOSE x \in S : \A y \in S : y <= x

NewId == 1 + Max({0} \cup {keys[i].ecdsaKey.id : i \in 1..Len(keys)})

FlipBit(b, i) == IF (b \div (2 ^ i)) % 2 = 1 THEN b - 2 ^ i ELSE b + 2 ^ i

\* every slice that differs from s in exactly one bit
BitFlips(s) ==
    IF s = Nil THEN {}
    ELSE {[s EXCEPT ![i] = FlipBit(s[i], b)] : i \in 1..Len(s), b \in 0..7}

OtherDigest(d) == CHOOSE x \in Digests : x # d

\* blobs a caller may hand to Verify for key k and digest d, built from
\* signatures that are valid (g) or not (b) for k and d
Crafted(k, d) ==
    LET gE == <<Tag("ecdsa"), k.ecdsaKey.id>> \o d
        bE == <<Tag("ecdsa"), k.ecdsaKey.id>> \o OtherDigest(d)
    IN  IF k.kind # "hybrid"
        THEN {gE, bE}
        ELSE LET gP == <<Tag("pqc"), k.pqcPub[1]>> \o d
                 bP == <<Tag("pqc"), k.pqcPub[1]>> \o OtherDigest(d)
             IN  {combineSignatures(gE, gP), combineSignatures(bE, gP),
                  combineSignatures(gE, bP), combineSignatures(bE, bP),
                  gP, gE, <<>>, <<0, 0, 0, 9, 1>>, <<255, 255, 255, 255, 1, 2>>}

\* the (blob, digest, fault) triples Verify is called with: blobs crafted
\* for one digest and the blob last signed, under every engine fault, and,
\* for the key that signed and its public half, every single-bit change of
\* the signed blob or of its digest
VerifyInputs(k) ==
    {<<s[1], s[2], f>> : s \in Crafted(k, <<1>>) \X {<<1>>}, f \in Faults}
    \cup (IF signed.k = 0 THEN {}
          ELSE {<<signed.sig, signed.digest, f>> : f \in Faults})
    \cup (IF signed.k # 0 /\ k \in {keys[signed.k], PublicKeyOf(keys[signed.k])}
          THEN {<<t, signed.digest, "none">> : t \in BitFlips(signed.sig)}
               \cup {<<signed.sig, t, "none">> : t \in BitFlips(signed.digest)}
          ELSE {})

Init ==
    /\ build \in {"mono", "split", "old"}
    /\ keys = <<>>
    /\ heap = <<>>
    /\ ctxs = <<>>
    /\ last = NoCall
    /\ signed = NoSigned
    /\ cx = NoCodec
    /\ thr = NoThreads

\* calls are made one after the other: a call is made when the result of
\* the one before has been taken (Return)
Idle == last.op = "none"

KeyGenDone(r, fault) ==
    /\ keys' = IF r.err = NoErr THEN Append(keys, r.key) ELSE keys
    /\ heap' = r.heap
    /\ ctxs' = r.ctxs
    /\ last' = [NoCall EXCEPT !.op = "KeyGen", !.err = r.err, !.fault = fault,
                              !.key = r.key, !.calls = r.calls,
                              !.k = IF r.err = NoErr THEN Len(keys) + 1 ELSE 0]

KeyGenMonoCall ==
    /\ build = "mono"
    /\ Idle
    /\ Len(keys) < MaxKeys
    /\ \E fault \in Faults : KeyGenDone(KeyGenMono(NewId, fault, heap, ctxs), fault)
    /\ UNCHANGED <<build, signed, cx, thr>>

KeyGenSplitCall ==
    /\ build = "split"
    /\ Idle
    /\ Len(keys) < MaxKeys
    /\ \E fault \in Faults : KeyGenDone(KeyGenSplit(NewId, fault, heap, ctxs), fault)
    /\ UNCHANGED <<build, signed, cx, thr>>

\* the contexts in ctxs that no key refers to
Leaked == {i \in 1..Len(ctxs) : ctxs[i].sk = 0}

\* old build; a context nothing refers to stays in ctxs
KeyGenOldCall ==
    /\ build = "old"
    /\ Idle
    /\ Len(keys) < MaxKeys
    /\ Len(ctxs) < MaxKeys
    /\ \E fault \in Faults :
          /\ fault = "pqc" => Cardinality(Leaked) < MaxLeaks
          /\ KeyGenDone(KeyGenOld(NewId, fault, heap, ctxs), fault)
    /\ UNCHANGED <<build, signed, cx, thr>>

\* the key argument of a call: keys[i], or no key
KeyArg(i) == IF i = 0 THEN NoKey ELSE keys[i]

PassDone(op, i, raw, fault, r) ==
    last' = [NoCall EXCEPT !.op = op, !.from = i, !.raw = raw, !.fault = fault,
                          !.out = r.out, !.key = r.key, !.err = r.err]

\* KeyImport: passed through to the classical provider, which returns a
\* plain classical key; the caller keeps it
KeyImport ==
    /\ Idle
    /\ Len(keys) < MaxKeys
    /\ \E private \in {0, 1}, fault \in {"none", "ecdsa"} :
          LET r == PassThrough("KeyImport", NoKey, <<private>>, fault, NewId)
          IN  /\ keys' = IF r.err = NoErr THEN Append(keys, r.key) ELSE keys
              /\ last' = [NoCall EXCEPT !.op = "KeyImport", !.raw = <<private>>,
                                        !.fault = fault, !.out = r.out, !.key = r.key,
                                        !.err = r.err,
                                        !.k = IF r.err = NoErr THEN Len(keys) + 1 ELSE 0]
    /\ UNCHANGED <<build, heap, ctxs, signed, cx, thr>>

\* KeyDeriv, GetKey, Hash, GetHash, Encrypt, Decrypt: the caller looks at
\* the result and keeps nothing
PassThroughCall ==
    /\ Idle
    /\ \E op \in PassOps \ {"KeyImport"}, i \in 0..Len(keys), raw \in Digests,
          fault \in {"none", "ecdsa"} :
          /\ i = 0 <=> op \in {"Hash", "GetHash"}
          /\ PassDone(op, i, raw, fault, PassThrough(op, KeyArg(i), raw, fault, NewId))
    /\ UNCHANGED <<build, keys, heap, ctxs, signed, cx, thr>>

\* hybridKey.PublicKey(): fails when the classical key's PublicKey fails
PublicKey(k, fault) ==
    IF fault = "ecdsa"
    THEN [key |-> NoKey, err |-> "sw: public key failed"]
    ELSE [key |-> PublicKeyOf(k), err |-> NoErr]

PublicKeyCall ==
    /\ Idle
    /\ Len(keys) < MaxKeys
    /\ \E i \in 1..Len(keys), fault \in {"none", "ecdsa"} :
          LET r == PublicKey(keys[i], fault)
          IN  /\ keys[i].kind = "hybrid"
              /\ keys' = IF r.err = NoErr THEN Append(keys, r.key) ELSE keys
              /\ last' = [NoCall EXCEPT !.op = "PublicKey", !.from = i, !.err = r.err,
                                        !.key = r.key, !.fault = fault,
                                        !.k = IF r.err = NoErr THEN Len(keys) + 1 ELSE 0]
    /\ UNCHANGED <<build, heap, ctxs, signed, cx, thr>>

SignDone(i, digest, fault, r) ==
    /\ last' = [NoCall EXCEPT !.op = "Sign", !.k = i, !.digest = digest, !.out = r.out,
                              !.err = r.err, !.panic = r.panic, !.ranE = r.ranE,
                              !.ranP = r.ranP, !.fault = fault, !.calls = r.calls,
                              !.keyCalls = r.keyCalls]
    /\ signed' = IF keys[i].kind = "hybrid" /\ r.err = NoErr /\ ~r.panic
                 THEN [k |-> i, digest |-> digest, sig |-> r.out]
                 ELSE signed

SignMonoCall ==
    /\ build = "mono"
    /\ Idle
    /\ \E i \in 1..Len(keys), digest \in Digests, fault \in Faults :
          LET r == SignMono(keys[i], digest, fault, heap)
          IN  /\ SignDone(i, digest, fault, r)
              \* defer signer.Clean()
              /\ heap' = IF r.inited THEN Clean(heap, keys[i].pqcPriv) ELSE heap
    /\ UNCHANGED <<build, keys, ctxs, cx, thr>>

\* sign.go is the Sign of the split and of the old build
SignSplitCall ==
    /\ build \in {"split", "old"}
    /\ Idle
    /\ \E i \in 1..Len(keys), digest \in Digests, fault \in Faults :
          SignDone(i, digest, fault, SignSplit(keys[i], digest, fault, ctxs, heap))
    /\ UNCHANGED <<build, keys, heap, ctxs, cx, thr>>

VerifyDone(i, in, r) ==
    last' = [NoCall EXCEPT !.op = "Verify", !.k = i, !.sig = in[1], !.digest = in[2],
                          !.valid = r.valid, !.err = r.err, !.panic = r.panic,
                          !.parse = r.parse, !.ranE = r.ranE, !.ranP = r.ranP,
                          !.validE = r.validE, !.validP = r.validP, !.fault = in[3],
                          !.calls = r.calls, !.keyCalls = r.keyCalls]

VerifyMonoCall ==
    /\ build = "mono"
    /\ Idle
    /\ \E i \in 1..Len(keys) :
          \E in \in VerifyInputs(keys[i]) :
             VerifyDone(i, in, VerifyMono(keys[i], in[1], in[2], in[3]))
    /\ UNCHANGED <<build, keys, heap, ctxs, signed, cx, thr>>

VerifySplitCall ==
    /\ build = "split"
    /\ Idle
    /\ \E i \in 1..Len(keys) :
          \E in \in VerifyInputs(keys[i]) :
             VerifyDone(i, in, VerifySplit(keys[i], in[1], in[2], in[3]))
    /\ UNCHANGED <<build, keys, heap, ctxs, signed, cx, thr>>

VerifyOldCall ==
    /\ build = "old"
    /\ Idle
    /\ \E i \in 1..Len(keys) :
          \E in \in VerifyInputs(keys[i]) :
             VerifyDone(i, in, VerifyOld(keys[i], in[1], in[2], in[3], ctxs))
    /\ UNCHANGED <<build, keys, heap, ctxs, signed, cx, thr>>

\* the caller takes the result of the last call
Return ==
    /\ ~Idle
    /\ last' = NoCall
    /\ UNCHANGED <<build, keys, heap, ctxs, signed, cx, thr>>

Next ==
    \/ KeyGenMonoCall
    \/ KeyGenSplitCall
    \/ KeyGenOldCall
    \/ KeyImport
    \/ PassThroughCall
    \/ PublicKeyCall
    \/ SignMonoCall
    \/ SignSplitCall
    \/ VerifyMonoCall
    \/ VerifySplitCall
    \/ VerifyOldCall
    \/ Return

Spec == Init /\ [][Next]_vars

(***************************************************************************)
(* The codec on its own: combineSignatures and the two drafts of           *)
(* parseHybridSignature applied to inputs drawn from bounded sets.         *)
(***************************************************************************)
InitCodec ==
    /\ build = "mono"
    /\ keys = <<>>
    /\ heap = <<>>
    /\ ctxs = <<>>
    /\ last = NoCall
    /\ signed = NoSigned
    /\ cx \in PairInputs \cup BlobInputs
    /\ thr = NoThreads

Combine ==
    /\ cx.kind = "pair"
    /\ cx.combined = Nil
    /\ cx' = [cx EXCEPT !.combined = combineSignatures(cx.a, cx.b)]
    /\ UNCHANGED <<build, keys, heap, ctxs, last, signed, thr>>

\* the blob a parse is applied to: the input blob, or what Combine returned
ParseArg == IF cx.kind = "blob" THEN cx.blob ELSE cx.combined

Parse ==
    /\ ParseArg # Nil
    /\ cx.parsed.status = "none"
    /\ cx' = [cx EXCEPT !.parsed = parseHybridSignature(ParseArg)]
    /\ UNCHANGED <<build, keys, heap, ctxs, last, signed, thr>>

ParseMono ==
    /\ ParseArg # Nil
    /\ cx.parsedMono.status = "none"
    /\ cx' = [cx EXCEPT !.parsedMono = parseHybridSignatureMono(ParseArg)]
    /\ UNCHANGED <<build, keys, heap, ctxs, last, signed, thr>>

NextCodec == Combine \/ Parse \/ ParseMono

SpecCodec == InitCodec /\ [][NextCodec]_vars

(***************************************************************************)
(* Several threads calling Sign and Verify at the same time.  The keys     *)
(* come from KeyGen calls made before the threads start.  A call makes its *)
(* native calls one after the other: those on the context it declares      *)
(* itself and those on the context the key keeps; between the entry into a *)
(* native call and the return from it other threads run.                   *)
(***************************************************************************)
KeyGenOf(b, id, h, c) ==
    IF b = "mono" THEN KeyGenMono(id, "none", h, c)
    ELSE IF b = "split" THEN KeyGenSplit(id, "none", h, c)
    ELSE KeyGenOld(id, "none", h, c)

InitThreads ==
    /\ build \in {"mono", "split", "old"}
    /\ \E n \in 1..2 :
          LET r1 == KeyGenOf(build, 1, <<>>, <<>>)
              r2 == KeyGenOf(build, 2, r1.heap, r1.ctxs)
          IN  IF n = 1
              THEN keys = <<r1.key>> /\ heap = r1.heap /\ ctxs = r1.ctxs
              ELSE keys = <<r1.key, r2.key>> /\ heap = r2.heap /\ ctxs = r2.ctxs
    /\ last = NoCall
    /\ signed = NoSigned
    /\ cx = NoCodec
    /\ thr = NoThreads

\* the native calls of a call of thread t with key i, each with the context
\* it is made on: the call's own context, or the context of the key's signer
NativeCalls(t, i, r) ==
    [n \in 1..Len(r.calls) |-> [ctx |-> <<"own", t>>, call |-> r.calls[n]]]
    \o [n \in 1..Len(r.keyCalls) |->
            [ctx |-> <<"key", keys[i].pqcPriv>>, call |-> r.keyCalls[n]]]

SignOf(k, digest, fault) ==
    IF build = "mono" THEN SignMono(k, digest, fault, heap)
    ELSE SignSplit(k, digest, fault, ctxs, heap)

VerifyOf(k, signature, digest, fault) ==
    IF build = "mono" THEN VerifyMono(k, signature, digest, fault)
    ELSE IF build = "split" THEN VerifySplit(k, signature, digest, fault)
    ELSE VerifyOld(k, signature, digest, fault, ctxs)

\* thread t calls Sign
ThreadSign ==
    /\ \E t \in Threads, i \in 1..Len(keys), digest \in Digests, fault \in Faults :
          LET r == SignOf(keys[i], digest, fault)
          IN  /\ thr[t].op = "none"
              /\ ~r.panic
              /\ thr' = [thr EXCEPT ![t] = [NoThread EXCEPT !.op = "Sign", !.k = i,
                                                          !.todo = NativeCalls(t, i, r)]]
    /\ UNCHANGED <<build, keys, heap, ctxs, last, signed, cx>>

\* thread t calls Verify
ThreadVerify ==
    /\ \E t \in Threads, i \in 1..Len(keys), digest \in Digests, fault \in Faults :
          \E signature \in Crafted(keys[i], digest) :
             LET r == VerifyOf(keys[i], signature, digest, fault)
             IN  /\ thr[t].op = "none"
                 /\ ~r.panic
                 /\ thr' = [thr EXCEPT ![t] = [NoThread EXCEPT !.op = "Verify", !.k = i,
                                                             !.todo = NativeCalls(t, i, r)]]
    /\ UNCHANGED <<build, keys, heap, ctxs, last, signed, cx>>

\* thread t enters its next native call
NativeEnter ==
    /\ \E t \in Threads :
          /\ thr[t].using = NoCtx
          /\ thr[t].todo # <<>>
          /\ thr' = [thr EXCEPT ![t].using = Head(thr[t].todo).ctx,
                                ![t].call = Head(thr[t].todo).call,
                                ![t].todo = Tail(thr[t].todo)]
    /\ UNCHANGED <<build, keys, heap, ctxs, last, signed, cx>>

\* the native call of thread t returns; Clean of a context that holds the
\* key's private bytes zeroes them
NativeLeave ==
    /\ \E t \in Threads :
          /\ thr[t].using # NoCtx
          /\ thr' = [thr EXCEPT ![t].using = NoCtx, ![t].call = "none"]
          /\ heap' = IF build = "mono" /\ thr[t].op = "Sign" /\ thr[t].call = "Clean"
                     THEN Clean(heap, keys[thr[t].k].pqcPriv)
                     ELSE heap
    /\ UNCHANGED <<build, keys, ctxs, last, signed, cx>>

\* the call of thread t returns
ThreadReturn ==
    /\ \E t \in Threads :
          /\ thr[t].op # "none"
          /\ thr[t].using = NoCtx
          /\ thr[t].todo = <<>>
          /\ thr' = [thr EXCEPT ![t] = NoThread]
    /\ UNCHANGED <<build, keys, heap, ctxs, last, signed, cx>>

NextThreads ==
    \/ ThreadSign
    \/ ThreadVerify
    \/ NativeEnter
    \/ NativeLeave
    \/ ThreadReturn

SpecThreads == InitThreads /\ [][NextThreads]_vars

(***************************************************************************)
(* The methods of hybridKey on their own, applied to two hybrid keys built *)
(* from every combination of a classical key and post-quantum material:    *)
(* keys as the mono build's KeyGen and PublicKey() leave them, except that *)
(* two keys may hold the same classical key.  Material m is the key pair   *)
(* of secret bytes <<m>>, kept at heap[m] and wiped there.                 *)
(***************************************************************************)
KeyIds == {1, 2}

HybridKeys ==
    {HybridKey([id |-> i, private |-> p], PubOf(<<m>>), m, IF p THEN m ELSE 0) :
        i \in KeyIds, p \in BOOLEAN, m \in KeyIds}

InitKeys ==
    /\ build = "mono"
    /\ keys \in [1..2 -> HybridKeys]
    /\ heap = <<Zeroed(<<1>>), Zeroed(<<2>>)>>
    /\ ctxs = <<>>
    /\ last = NoCall
    /\ signed = NoSigned
    /\ cx = NoCodec
    /\ thr = NoThreads

SKICall ==
    /\ Idle
    /\ \E i \in 1..Len(keys) :
          last' = [NoCall EXCEPT !.op = "SKI", !.from = i, !.out = SKI(keys[i])]
    /\ UNCHANGED <<build, keys, heap, ctxs, signed, cx, thr>>

BytesCall ==
    /\ Idle
    /\ \E i \in 1..Len(keys) :
          LET r == Bytes(keys[i])
          IN  last' = [NoCall EXCEPT !.op = "Bytes", !.from = i, !.out = r.out,
                                    !.err = r.err]
    /\ UNCHANGED <<build, keys, heap, ctxs, signed, cx, thr>>

NextKeys ==
    \/ SKICall
    \/ BytesCall
    \/ Return

SpecKeys == InitKeys /\ [][NextKeys]_vars

(***************************************************************************)
(* Properties                                                              *)
(***************************************************************************)
HybridVerify == last.op = "Verify" /\ keys[last.k].kind = "hybrid"

\* both components of blob s are valid signatures of digest d under key k
BothComponentsValid(k, s, d) ==
    LET ps == parseHybridSignature(s)
    IN  /\ ps.status = "ok"
        /\ swVerify(k.ecdsaKey, ps.ecdsaSig, d, "none").valid
        /\ oqsVerify(d, ps.pqcSig, k.pqcPub, "none").valid

\* C1: Verify with a hybrid key returns true only if the classical
\* component of the blob verifies under the key's classical public key and
\* the post-quantum component verifies under its post-quantum public bytes.
C1_VerifyTrueOnlyIfBoth ==
    (HybridVerify /\ last.valid)
        => BothComponentsValid(keys[last.k], last.sig, last.digest)

\* the last call verified the blob last signed, under the public key of the
\* key that signed it, and no engine failed by itself
RoundTripCall ==
    /\ HybridVerify
    /\ signed.k # 0
    /\ last.sig = signed.sig
    /\ last.digest = signed.digest
    /\ keys[last.k] = PublicKeyOf(keys[signed.k])
    /\ last.fault = "none"

\* C2: round trip: a blob Sign(k, d) returned verifies under PublicKey(k)
\* and d with the result (true, nil).
C2_RoundTrip ==
    RoundTripCall => (last.valid /\ last.err = NoErr /\ ~last.panic)

\* C3: Verify with a hybrid key returns (false, nil) exactly when the blob
\* parses, no engine fails, and at least one component is not a valid
\* signature; an invalid classical component alone gives (false, nil).
C3_RejectionIffInvalid ==
    HybridVerify =>
        ((~last.valid /\ last.err = NoErr /\ ~last.panic)
            <=> (/\ parseHybridSignature(last.sig).status = "ok"
                 /\ last.fault = "none"
                 /\ ~BothComponentsValid(keys[last.k], last.sig, last.digest)))

\* the last call verified, under the signing key or its public key, the
\* blob last signed with one bit of the blob or of the digest changed
TamperedCall ==
    /\ HybridVerify
    /\ signed.k # 0
    /\ keys[last.k] \in {keys[signed.k], PublicKeyOf(keys[signed.k])}
    /\ \/ last.sig \in BitFlips(signed.sig) /\ last.digest = signed.digest
       \/ last.sig = signed.sig /\ last.digest \in BitFlips(signed.digest)

CodecParses == {cx.parsed, cx.parsedMono}

\* C5: parsing combineSignatures(A, B) succeeds and returns exactly (A, B),
\* also when B is empty.
C5_CodecRoundTrip ==
    (cx.kind = "pair" /\ cx.combined # Nil) =>
        \A ps \in CodecParses :
            ps.status # "none" =>
                (ps.status = "ok" /\ ps.ecdsaSig = cx.a /\ ps.pqcSig = cx.b)

\* a non-empty A combined with an empty B, parsed back
C5_Witness ==
    /\ cx.kind = "pair"
    /\ cx.a # <<>>
    /\ cx.b = <<>>
    /\ cx.parsed.status = "ok"

\* C6: combineSignatures(A, B) is the 4-byte big-endian length of A, then A,
\* then B, and nothing else: 4 + len(A) + len(B) bytes.
C6_WireFormat ==
    (cx.kind = "pair" /\ cx.combined # Nil) =>
        LET c == cx.combined
            n == Len(cx.a)
        IN  /\ Len(c) = 4 + n + Len(cx.b)
            /\ c[1] * (2 ^ 24) + c[2] * (2 ^ 16) + c[3] * (2 ^ 8) + c[4] = n
            /\ SubSeq(c, 5, 4 + n) = cx.a
            /\ SubSeq(c, 5 + n, Len(c)) = cx.b
            /\ (cx.a = <<65, 66>> /\ cx.b = <<88, 89, 90>>)
                   => c = <<0, 0, 0, 2, 65, 66, 88, 89, 90>>

\* combine([0x41,0x42], [0x58,0x59,0x5A]) was computed
C6_Witness ==
    /\ cx.kind = "pair"
    /\ cx.a = <<65, 66>>
    /\ cx.b = <<88, 89, 90>>
    /\ cx.combined # Nil

\* the length prefix of blob s exceeds the bytes that follow it
PrefixExceeds(s) ==
    Len(s) >= 4 /\ U32Gt(Uint32(SubSeq(s, 1, 4)), ToUint32(Len(s) - 4))

\* C7: a blob of at least 4 bytes whose length prefix exceeds the bytes
\* that follow makes parseHybridSignature return an error, for every prefix
\* up to 2^32 - 1, and no slice expression is evaluated out of range.
C7_MalformedLengthError ==
    (cx.kind = "blob" /\ PrefixExceeds(cx.blob)) =>
        \A ps \in CodecParses : ps.status \in {"none", "err"}

\* C8: a blob shorter than 4 bytes makes parseHybridSignature return the
\* 'too short' error with nil components, the length prefix not read.
C8_TooShort ==
    (cx.kind = "blob" /\ Len(cx.blob) < 4) =>
        \A ps \in CodecParses :
            ps.status # "none" =>
                /\ ps.status = "err"
                /\ ps.err = "signature too short"
                /\ ps.ecdsaSig = Nil
                /\ ps.pqcSig = Nil
                /\ ~ps.readPrefix

\* a 3-byte blob given to both drafts
C8_Witness ==
    /\ cx.kind = "blob"
    /\ Len(cx.blob) = 3
    /\ cx.parsed.status = "err"
    /\ cx.parsedMono.status = "err"

\* C9: Sign with a hybrid key that has no post-quantum private material
\* returns an error and no signature, without a panic and without a native
\* signing operation.
C9_PublicOnlySignRejected ==
    (last.op = "Sign" /\ keys[last.k].kind = "hybrid" /\ ~HasPrivateKey(keys[last.k]))
        => (last.err # NoErr /\ last.out = Nil /\ ~last.panic /\ ~last.ranP)

\* C10: Sign with a plain classical key returns exactly what the classical
\* provider's Sign returns for that key and digest.
C10_SignFallback ==
    (last.op = "Sign" /\ keys[last.k].kind = "classical") =>
        LET r == swSign(keys[last.k].ecdsaKey, last.digest, last.fault)
        IN  last.out = r.sig /\ last.err = r.err

\* C11: Verify with a plain classical key returns exactly what the classical
\* provider's Verify returns for that key, signature and digest, and the
\* signature is not parsed as a combined blob.
C11_VerifyFallback ==
    (last.op = "Verify" /\ keys[last.k].kind = "classical") =>
        LET r == swVerify(keys[last.k].ecdsaKey, last.sig, last.digest, last.fault)
        IN  /\ last.valid = r.valid
            /\ last.err = r.err
            /\ ~last.panic
            /\ last.parse = "none"

\* sig is a post-quantum signature over digest (under whatever key)
IsPqcSignatureOver(sig, digest) ==
    /\ sig # Nil
    /\ Len(sig) = 2 + Len(digest)
    /\ sig[1] = Tag("pqc")
    /\ SubSeq(sig, 3, Len(sig)) = digest

HybridSign == last.op = "Sign" /\ keys[last.k].kind = "hybrid" /\ ~last.panic

\* C12: a successful Sign with a hybrid key returns a blob that parses into
\* the classical provider's signature over the digest and a post-quantum
\* signature over the same digest; if either signing step fails, Sign returns
\* an error and no blob.
C12_NoPartialSignature ==
    HybridSign =>
        IF last.err = NoErr
        THEN LET ps == parseHybridSignature(last.out)
             IN  /\ last.out # Nil
                 /\ ps.status = "ok"
                 /\ ps.ecdsaSig = swSign(keys[last.k].ecdsaKey, last.digest, "none").sig
                 /\ IsPqcSignatureOver(ps.pqcSig, last.digest)
        ELSE last.out = Nil

\* C13: KeyGen returns either an error and no key, or a hybrid key with the
\* classical key, the post-quantum public key and the post-quantum private
\* material all present; a failing stage always gives the error.
C13_KeyGenAtomic ==
    last.op = "KeyGen" =>
        /\ last.fault # "none" => last.err # NoErr
        /\ IF last.err # NoErr
           THEN last.key = NoKey /\ last.k = 0
           ELSE /\ last.key.kind = "hybrid"
                /\ last.key.ecdsaKey.id # 0
                /\ Private(last.key)
                /\ last.key.pqcPub # Nil
                /\ Len(last.key.pqcPub) > 0
                /\ HasPrivateKey(last.key)
                /\ keys[last.k] = last.key

\* the post-quantum key generation failed after the classical one succeeded
C13_Witness ==
    /\ last.op = "KeyGen"
    /\ last.fault = "pqc"
    /\ build = "split"
    /\ last.key = NoKey

\* one step of the provider, as far as keys are concerned
PublicKeyStep ==
    (last'.op = "PublicKey" /\ last' # last) =>
        LET from == keys[last'.from]
        IN  IF last'.err = NoErr
            THEN /\ keys' = Append(keys, last'.key)
                 /\ last'.key.kind = "hybrid"
                 /\ ~HasPrivateKey(last'.key)
                 /\ ~Private(last'.key)
                 /\ last'.key.ecdsaKey.id = from.ecdsaKey.id
                 /\ last'.key.pqcPub = from.pqcPub
            ELSE last'.key = NoKey /\ keys' = keys

\* the keys that exist stay as they are, and a key that appears with private
\* material has an identity no existing key has
OneWayStep ==
    /\ Len(keys') >= Len(keys)
    /\ \A i \in 1..Len(keys) : keys'[i] = keys[i]
    /\ \A j \in (Len(keys) + 1)..Len(keys') :
          (Private(keys'[j]) \/ HasPrivateKey(keys'[j])) =>
              \A i \in 1..Len(keys) : keys[i].ecdsaKey.id # keys'[j].ecdsaKey.id

\* C14: PublicKey() returns a new hybrid key without post-quantum private
\* material, with the public projection of the classical key and the same
\* post-quantum public key, or an error and no key; no step gives private
\* material to an identity that has a public-only key.
C14_PublicKeyOneWay == [][PublicKeyStep /\ OneWayStep]_vars

\* PublicKey() applied to a key that is public-only already
C14_Witness ==
    /\ last.op = "PublicKey"
    /\ last.err = NoErr
    /\ ~HasPrivateKey(keys[last.from])
    /\ ~HasPrivateKey(keys[last.k])

\* C15: in every hybrid key, Private() is true exactly when post-quantum
\* private material is present.
C15_PrivatePresence ==
    \A i \in 1..Len(keys) :
        keys[i].kind = "hybrid" => (Private(keys[i]) <=> HasPrivateKey(keys[i]))

\* a generated key, its public key, and the public key of that one
C15_Witness ==
    /\ Len(keys) >= 3
    /\ \A i \in 1..3 : keys[i].kind = "hybrid"
    /\ Private(keys[1])
    /\ ~Private(keys[2])
    /\ last.op = "PublicKey"
    /\ last.from = 2
    /\ last.k = 3

\* the context an operation declared is not left initialised
OwnContextReleased == NativeRun(last.calls, NativeInit).state # "Initialized"

\* C16: when a KeyGen, Sign or Verify call has returned, every native
\* context initialised during the calls so far has been released by Clean.
C16_AllReleased ==
    /\ OwnContextReleased
    /\ \A i \in 1..Len(ctxs) : ~ctxs[i].live

\* C17: when Sign and Verify calls run at the same time, also on the same
\* key, no native context is in use by more than one call at a time.
C17_ContextIsolation ==
    \A t1, t2 \in Threads :
        (t1 # t2 /\ thr[t1].using # NoCtx) => thr[t1].using # thr[t2].using

\* C18: no Sign, Verify or GenerateKeyPair is made on a native context after
\* Clean (or before Init) on it, and a key that can sign never holds a
\* signer whose context has been cleaned.
C18_NoUseAfterClean ==
    /\ ~NativeRun(last.calls, NativeInit).misuse
    /\ last.keyCalls # <<>> => ctxs[keys[last.k].pqcPriv].live
    /\ \A i \in 1..Len(keys) :
          (build # "mono" /\ keys[i].kind = "hybrid" /\ HasPrivateKey(keys[i]))
              => ctxs[keys[i].pqcPriv].live

\* a Sign made on the signer the key keeps
C18_Witness ==
    /\ build = "split"
    /\ last.op = "Sign"
    /\ last.err = NoErr
    /\ last.keyCalls = <<"Sign">>

\* a blob that does not parse: shorter than 4 bytes, or with a declared
\* classical length that exceeds the remaining bytes
Unparsable(s) == Len(s) < 4 \/ PrefixExceeds(s)

\* C19: Verify with a hybrid key and a blob that fails to parse returns
\* (false, err) with a non-nil error and performs neither the classical nor
\* the post-quantum verification.
C19_ParseFailureIsError ==
    (HybridVerify /\ Unparsable(last.sig)) =>
        /\ ~last.valid
        /\ last.err # NoErr
        /\ ~last.panic
        /\ ~last.ranE
        /\ ~last.ranP

\* what a pass-through call made in this step returned, against what the
\* classical provider returns for the same arguments, and what it left alone
PassThroughStep ==
    (last'.op \in PassOps /\ last' # last) =>
        LET r == swCall(last'.op, KeyArg(last'.from), last'.raw, last'.fault, NewId)
        IN  /\ last'.out = r.out
            /\ last'.key = r.key
            /\ last'.err = r.err
            /\ ~last'.panic
            /\ last'.calls = <<>>
            /\ last'.keyCalls = <<>>
            /\ ctxs' = ctxs
            /\ heap' = heap
            /\ \A i \in 1..Len(keys) : keys'[i] = keys[i]

\* C20: Hash, GetHash, Encrypt, Decrypt, KeyImport, KeyDeriv and GetKey
\* return exactly what the classical provider returns for the same
\* arguments, initialise no post-quantum context and leave every key as it
\* is.
C20_PassThrough == [][PassThroughStep]_vars

\* a pass-through call that was given a hybrid key with private material
C20_Witness ==
    /\ last.op \in {"KeyDeriv", "Encrypt", "Decrypt", "GetKey"}
    /\ last.from # 0
    /\ keys[last.from].kind = "hybrid"
    /\ HasPrivateKey(keys[last.from])

\* keys a and b point to the same post-quantum key bytes: the same backing
\* array of pqcPub, or the same private bytes or signer
SharesStorage(a, b) ==
    \/ a.pqcPubAt # 0 /\ a.pqcPubAt = b.pqcPubAt
    \/ a.pqcPriv # 0 /\ a.pqcPriv = b.pqcPriv

\* C21: no two distinct hybrid key instances, a key and the key its
\* PublicKey() returned included, share post-quantum key byte storage.
C21_ExclusiveOwnership ==
    \A i, j \in 1..Len(keys) :
        (i # j /\ keys[i].kind = "hybrid" /\ keys[j].kind = "hybrid")
            => ~SharesStorage(keys[i], keys[j])

\* how often call c occurs in a sequence of calls
Occurs(calls, c) == Cardinality({n \in 1..Len(calls) : calls[n] = c})

C23_CleanExactlyOnce ==
    /\ \A addr \in 1..Len(heap) : Clean(Clean(heap, addr), addr) = Clean(heap, addr)
    /\ NativeRun(last.calls \o <<"Clean">>, NativeInit)
           = NativeRun(last.calls, NativeInit)
    /\ Occurs(last.calls, "Init") = 1 => Occurs(last.calls, "Clean") = 1
    /\ Occurs(last.calls, "InitFailed") = 1 => Occurs(last.calls, "Clean") = 0

\* C24: SKI() and Bytes() of a hybrid key are those of its classical key:
\* two hybrid keys with the same classical key have the same SKI and the
\* same Bytes, whatever their post-quantum material.
C24_SKIClassicalOnly ==
    /\ last.op = "SKI" =>
          /\ last.out = swSKI(keys[last.from].ecdsaKey)
          /\ \A j \in 1..Len(keys) :
                keys[j].ecdsaKey = keys[last.from].ecdsaKey => SKI(keys[j]) = last.out
    /\ last.op = "Bytes" =>
          /\ last.out = swBytes(keys[last.from].ecdsaKey).out
          /\ last.err = swBytes(keys[last.from].ecdsaKey).err
          /\ \A j \in 1..Len(keys) :
                keys[j].ecdsaKey = keys[last.from].ecdsaKey
                    => (Bytes(keys[j]).out = last.out /\ Bytes(keys[j]).err = last.err)

\* SKI() of a key, next to a key with the same classical key and different
\* post-quantum public bytes
C24_Witness ==
    /\ last.op = "SKI"
    /\ Len(keys) = 2
    /\ keys[1].ecdsaKey = keys[2].ecdsaKey
    /\ keys[1].pqcPub # keys[2].pqcPub
    /\ last.out = SKI(keys[1])
    /\ last.out = SKI(keys[2])

\* C25: Verify with a key from KeyGen and Verify with the key its
\* PublicKey() returns end the same way for the same blob and digest: the
\* same (bool, error), and no failure or crash of the second that the first
\* does not have.
C25_VerifyNeedsNoPrivate ==
    (HybridVerify /\ HasPrivateKey(keys[last.k])) =>
        LET r == VerifyOf(PublicKeyOf(keys[last.k]), last.sig, last.digest, last.fault)
        IN  /\ r.panic = last.panic
            /\ r.valid = last.valid
            /\ r.err = last.err

\* a Sign call with a hybrid key made in this step: what it left alone, and
\* what a call with private material and no engine failure returned
SignStep ==
    (last'.op = "Sign" /\ last' # last /\ keys[last'.k].kind = "hybrid") =>
        LET k == keys[last'.k]
        IN  /\ keys' = keys
            /\ heap' = heap
            /\ ctxs' = ctxs
            /\ (HasPrivateKey(k) /\ last'.fault = "none") =>
                  LET r == VerifyOf(PublicKeyOf(k), last'.out, last'.digest, "none")
                  IN  /\ last'.err = NoErr
                      /\ ~last'.panic
                      /\ r.valid
                      /\ r.err = NoErr
                      /\ ~r.panic

\* C26: Sign leaves the key as it was (classical key, post-quantum public
\* key, post-quantum private material, also after the deferred Clean), so
\* that every Sign on a key with private material succeeds, the first and
\* any later one, and its blob verifies under PublicKey(k).
C26_SignLeavesKey == [][SignStep]_vars

\* C27: when the KeyGen that exports the raw private bytes has returned, the
\* private bytes of the key are the ones GenerateKeypair produced: they
\* belong to the key's public bytes and were not wiped by the deferred Clean.
C27_ExportedBytesIntact ==
    (build = "mono" /\ last.op = "KeyGen" /\ last.err = NoErr) =>
        LET pqcPriv == heap[last.key.pqcPriv]
        IN  /\ pqcPriv = <<last.key.ecdsaKey.id>>
            /\ PubOf(pqcPriv) = last.key.pqcPub
            /\ pqcPriv # Zeroed(pqcPriv)

\* C28: Verify with a hybrid key never returns true together with an error:
\* an error comes with false, and true comes with a nil error.
C28_NeverTrueWithError ==
    HybridVerify => ~(last.valid /\ last.err # NoErr)

\* the post-quantum engine failed after the blob of the mono build parsed
\* and its classical component passed
C28_Witness ==
    /\ HybridVerify
    /\ build = "mono"
    /\ last.validE
    /\ last.ranP
    /\ last.err # NoErr
    /\ ~last.valid

\* C29: on every blob the two drafts of parseHybridSignature end the same
\* way: both return an error, or both return the same pair of components;
\* neither panics.
C29_ParseDraftsAgree ==
    (cx.parsed.status # "none" /\ cx.parsedMono.status # "none") =>
        /\ cx.parsed.status # "panic"
        /\ cx.parsedMono.status # "panic"
        /\ cx.parsed.status = cx.parsedMono.status
        /\ cx.parsed.status = "ok" =>
              /\ cx.parsed.ecdsaSig = cx.parsedMono.ecdsaSig
              /\ cx.parsed.pqcSig = cx.parsedMono.pqcSig

\* C30: parseHybridSignature accepts exactly the blobs of at least 4 bytes
\* whose big-endian uint32 prefix L is at most len(blob) - 4; on acceptance
\* classicalSig has L bytes, pqSig the len(blob) - 4 - L bytes that remain,
\* and the two in this order are blob[4:]; L = len(blob) - 4 is accepted
\* with an empty pqSig.
C30_ParseAcceptance ==
    \A ps \in CodecParses :
        ps.status # "none" =>
            LET blob == ParseArg
                n    == Len(blob)
            IN  /\ ps.status = "ok" <=> (n >= 4 /\ ~PrefixExceeds(blob))
                /\ ps.status = "ok" =>
                      LET L == Uint32(SubSeq(blob, 1, 4))
                      IN  /\ L.hi = 0
                          /\ Len(ps.ecdsaSig) = L.lo
                          /\ Len(ps.pqcSig) = n - 4 - L.lo
                          /\ ps.ecdsaSig \o ps.pqcSig = SubSeq(blob, 5, n)
                          /\ L.lo = n - 4 => ps.pqcSig = <<>>

\* a blob whose prefix is exactly the number of bytes that follow, given to
\* both drafts
C30_Witness ==
    /\ cx.kind = "blob"
    /\ Len(cx.blob) = 6
    /\ Uint32(SubSeq(cx.blob, 1, 4)) = ToUint32(2)
    /\ cx.parsed.status = "ok"
    /\ cx.parsedMono.status = "ok"
    /\ cx.parsed.pqcSig = <<>>
    /\ cx.parsedMono.pqcSig = <<>>

====
